---- MODULE Spec2Model ----
(***************************************************************************)
(* A model of actix-http's response builder (src/actix-http/src/response.rs)*)
(*                                                                         *)
(* One ResponseBuilder is modelled: its three fields head, err and cookies,*)
(* the outcome of the last call made on it, and a snapshot of its fields   *)
(* before that call.  Every public method of the builder is one action.    *)
(* Option<T> is modelled as a sequence: <<>> is None, <<x>> is Some(x).     *)
(***************************************************************************)
EXTENDS Integers, Sequences, FiniteSets, TLC

\* The number of calls made on the builder in one behaviour.
MaxCalls == 3

None == <<>>
Some(x) == <<x>>
IsSome(o) == o # <<>>
Unwrap(o) == o[1]

(***************************************************************************)
(* Inputs                                                                  *)
(***************************************************************************)
\* A header value holding a control character: HeaderValue rejects it.
BadValue == "bad\nvalue"
\* A header name holding a space: HeaderName rejects it.
BadName == "bad name"

StatusCodes == {"OK", "NOT_FOUND"}
Reasons == {"Custom"}
HeaderKeys == {"Content-Type", "X-TEST", BadName}
HeaderValues == {"text/json", BadValue}
UpgradeValues == {"websocket", BadValue}
ContentLengths == {5, 12}
\* Typed headers handed to set(): the name H::name() and the outcome of try_into().
TypedHeaders == {[name |-> "content-type", value |-> "text/plain", ok |-> TRUE],
                 [name |-> "content-type", value |-> BadValue, ok |-> FALSE]}
\* Cookie::new(name, value)
NewCookie(name, value) ==
    [name |-> name, value |-> value, http_only |-> FALSE, path |-> "", domain |-> "",
     max_age |-> <<>>, expires |-> ""]
\* Cookie::build("c", "3").domain(..).path(..).http_only(true).max_age(days(1)).finish()
FullCookie ==
    [name |-> "c", value |-> "3", http_only |-> TRUE, path |-> "/test",
     domain |-> "www.rust-lang.org", max_age |-> <<86400>>, expires |-> ""]
\* The cookies handed to cookie() and del_cookie()
Cookies == {NewCookie("a", "1"), NewCookie("a", BadValue), NewCookie("b", "2"), FullCookie}
CookieNames == {c.name : c \in Cookies}
CookieValues == {c.value : c \in Cookies}
\* Values handed to json()/json2(): a Vec<&str>, and a value whose Serialize fails.
JsonValues == {[kind |-> "vec", items |-> <<"v1", "v2">>],
               [kind |-> "unserializable", items |-> <<>>]}
Bodies == {[kind |-> "Bytes", data |-> "hello"]}
Streams == {"stream"}

\* The header names a response head of the model can hold.
HeaderNames == {"content-type", "x-test", "content-length", "upgrade", "set-cookie"}

(***************************************************************************)
(* Collaborators: header names and values, cookies, JSON, bodies           *)
(***************************************************************************)
\* HeaderName::try_from: rejects an invalid name, lower-cases a valid one.
HeaderName_try_from(key) ==
    CASE key = BadName -> [ok |-> FALSE, v |-> "", e |-> "InvalidHeaderName"]
      [] key = "Content-Type" -> [ok |-> TRUE, v |-> "content-type", e |-> ""]
      [] key = "X-TEST" -> [ok |-> TRUE, v |-> "x-test", e |-> ""]
      [] OTHER -> [ok |-> TRUE, v |-> key, e |-> ""]

\* write!(wrt, "{}", len): the decimal rendering of a u64
Digit(d) ==
    CASE d = 0 -> "0" [] d = 1 -> "1" [] d = 2 -> "2" [] d = 3 -> "3" [] d = 4 -> "4"
      [] d = 5 -> "5" [] d = 6 -> "6" [] d = 7 -> "7" [] d = 8 -> "8" [] d = 9 -> "9"

RECURSIVE Decimal(_)
Decimal(n) == IF n < 10 THEN Digit(n) ELSE Decimal(n \div 10) \o Digit(n % 10)

\* Cookie's Display: name=value followed by the attributes that are set.
cookie_to_string(c) ==
    c.name \o "=" \o c.value
      \o (IF c.http_only THEN "; HttpOnly" ELSE "")
      \o (IF c.path = "" THEN "" ELSE "; Path=" \o c.path)
      \o (IF c.domain = "" THEN "" ELSE "; Domain=" \o c.domain)
      \o (IF c.max_age = <<>> THEN "" ELSE "; Max-Age=" \o Decimal(c.max_age[1]))
      \o (IF c.expires = "" THEN "" ELSE "; Expires=" \o c.expires)

\* The date CookieJar::remove gives a removal cookie: a year before now
PastDate == "Thu, 30 Oct 2025 00:00:00 GMT"

\* A removal cookie that keeps the value it was handed
removal_cookie_valued(c) == [c EXCEPT !.max_age = <<0>>, !.expires = PastDate]

\* What CookieJar::remove makes of the cookie it is handed
removal_cookie(c) == [c EXCEPT !.value = "", !.max_age = <<0>>, !.expires = PastDate]

\* The cookies a jar of the model can hold
AllCookies == Cookies \cup {removal_cookie(c) : c \in Cookies}

\* Cookie::parse_encoded: the cookie whose Display is s, if s is one
parse_encoded(s) ==
    IF \E c \in AllCookies : cookie_to_string(c) = s
    THEN <<CHOOSE c \in AllCookies : cookie_to_string(c) = s>>
    ELSE <<>>

\* t occurs in s
Contains(s, t) == \E i \in 1..(Len(s) - Len(t) + 1) : SubSeq(s, i, i + Len(t) - 1) = t

\* A character that is not ASCII: a header value may hold its bytes
NonAscii == "é"

\* HeaderValue::to_str: the string, unless the value holds a byte that is not
\* visible ASCII
to_str(v) == IF Contains(v, NonAscii) THEN <<>> ELSE <<v>>

\* The strings of the model that hold a byte a header value may not hold.
CtlStrings == {BadValue} \cup { cookie_to_string(c) : c \in {d \in AllCookies : d.value = BadValue} }

\* IntoHeaderValue::try_into / HeaderValue::try_from / HeaderValue::from_str
HeaderValue_try_from(value) ==
    IF value \in CtlStrings
    THEN [ok |-> FALSE, v |-> "", e |-> "InvalidHeaderValue"]
    ELSE [ok |-> TRUE, v |-> value, e |-> ""]

\* serde_json::to_string on the values of the model
RECURSIVE JsonItems(_)
JsonItems(items) ==
    IF items = <<>> THEN ""
    ELSE "\"" \o Head(items) \o "\""
           \o (IF Tail(items) = <<>> THEN "" ELSE "," \o JsonItems(Tail(items)))

serde_json_to_string(value) ==
    IF value.kind = "vec"
    THEN [ok |-> TRUE, v |-> "[" \o JsonItems(value.items) \o "]", e |-> ""]
    ELSE [ok |-> FALSE, v |-> "", e |-> "JsonError"]

BodyEmpty == [kind |-> "Empty", data |-> ""]
BodyBytes(s) == [kind |-> "Bytes", data |-> s]
\* Body::from_message(BodyStream::new(stream))
BodyMessage(s) == [kind |-> "Message", data |-> s]

(***************************************************************************)
(* ResponseHead and its header map                                         *)
(***************************************************************************)
NoHeaders == [k \in HeaderNames |-> <<>>]

\* HeaderMap::append: one more value for the key, after the ones it has
append(headers, key, value) == [headers EXCEPT ![key] = Append(@, value)]

\* HeaderMap::insert: the value replaces every value the key has
insert(headers, key, value) == [headers EXCEPT ![key] = <<value>>]

contains_key(headers, key) == headers[key] # <<>>

\* Message::new() with head.status = status
NewHead(status) ==
    [version |-> "HTTP/1.1", status |-> status, reason |-> None,
     headers |-> NoHeaders, ctype |-> None, no_chunking |-> FALSE]

\* ResponseHead::set_connection_type
set_connection_type(h, ctype) == [h EXCEPT !.ctype = Some(ctype)]

(***************************************************************************)
(* Response                                                                *)
(***************************************************************************)
\* Response::new
Response_new(status) ==
    [head |-> NewHead(status),
     body |-> [arm |-> "Body", b |-> BodyEmpty],
     error |-> None]

\* ResponseError::error_response of the faults of the model
error_response(error) ==
    IF error = "InvalidHeaderValue"
    THEN Response_new("BAD_REQUEST")
    ELSE Response_new("INTERNAL_SERVER_ERROR")

\* from_error forgetting to attach the error
from_error_unmarked(error) == error_response(error)

\* Response::from_error
from_error(error) == [error_response(error) EXCEPT !.error = Some(error)]

\* Response::into_body
into_body(resp) == [resp EXCEPT !.body = [arm |-> "Other", b |-> resp.body.b]]

\* Response::add_cookie: Ok with the Set-Cookie line appended, or Err
add_cookie(resp, c) ==
    LET v == HeaderValue_try_from(cookie_to_string(c))
    IN  IF v.ok
        THEN [ok |-> TRUE, e |-> "",
              resp |-> [resp EXCEPT !.head.headers = append(@, "set-cookie", v.v)]]
        ELSE [ok |-> FALSE, e |-> v.e, resp |-> resp]

\* CookieIter over the Set-Cookie lines of a header map: the cookies that
\* parse, up to the first value that to_str() refuses, where next() returns
\* None and the iteration ends
RECURSIVE CookieIter(_)
CookieIter(lines) ==
    IF lines = <<>>
    THEN <<>>
    ELSE LET s == to_str(Head(lines))
         IN  IF s = None
             THEN <<>>
             ELSE LET c == parse_encoded(Unwrap(s))
                  IN  IF IsSome(c) THEN <<Unwrap(c)>> \o CookieIter(Tail(lines))
                      ELSE CookieIter(Tail(lines))

\* The loop of Response::del_cookie stopping at the first cookie it removes
RECURSIVE del_cookie_loop_once(_, _)
del_cookie_loop_once(vals, name) ==
    IF vals = <<>>
    THEN [kept |-> <<>>, count |-> 0]
    ELSE LET c == parse_encoded(Head(vals))
         IN  IF IsSome(to_str(Head(vals))) /\ IsSome(c) /\ Unwrap(c).name = name
             THEN [kept |-> Tail(vals), count |-> 1]
             ELSE LET rest == del_cookie_loop_once(Tail(vals), name)
                  IN  [kept |-> <<Head(vals)>> \o rest.kept, count |-> rest.count]

\* The loop of Response::del_cookie over the Set-Cookie values it took out:
\* the values it appends back and the number it drops
RECURSIVE del_cookie_loop(_, _)
del_cookie_loop(vals, name) ==
    IF vals = <<>>
    THEN [kept |-> <<>>, count |-> 0]
    ELSE LET s == to_str(Head(vals))
             c == IF IsSome(s) THEN parse_encoded(Unwrap(s)) ELSE <<>>
             rest == del_cookie_loop(Tail(vals), name)
         IN  IF IsSome(c) /\ Unwrap(c).name = name
             THEN [kept |-> rest.kept, count |-> rest.count + 1]
             ELSE [kept |-> <<Head(vals)>> \o rest.kept, count |-> rest.count]

\* Response::del_cookie: the Response it leaves and the count it returns
Response_del_cookie(resp, name) ==
    LET l == del_cookie_loop(resp.head.headers["set-cookie"], name)
    IN  [resp |-> [resp EXCEPT !.head.headers["set-cookie"] = l.kept], out |-> l.count]

\* Response::cookies
Response_cookies(resp) == CookieIter(resp.head.headers["set-cookie"])

\* ResponseHead::connection_type: the stored type, or the one the version implies
connection_type(h) ==
    IF IsSome(h.ctype) THEN Unwrap(h.ctype)
    ELSE IF h.version = "HTTP/1.0" THEN "Close" ELSE "KeepAlive"

\* Response::upgrade
Response_upgrade(r) == connection_type(r.head) = "Upgrade"

\* Response::keep_alive
Response_keep_alive(r) == connection_type(r.head) = "KeepAlive"

\* Error::from(e: HttpError), e the fault latched by a header call
HttpError(cause) == "HttpError(" \o cause \o ")"

(***************************************************************************)
(* ResponseBuilder                                                         *)
(***************************************************************************)
VARIABLES
    head,     \* Option<Message<ResponseHead>>
    err,      \* Option<HttpError>: the deferred-error slot
    cookies,  \* Option<CookieJar>
    moved,    \* the builder the last take() returned, if any
    pre,      \* head, err and cookies before the last call
    last,     \* the last call: its name, its argument and its outcome
    calls,    \* the number of calls made
    returned, \* the number of terminal calls that returned a Response
    jsonReturned, \* a json or json2 call has returned a Response
    sinceLatch,   \* the number of mutator calls made since the fault in err latched
    staged,       \* the cookie and del_cookie calls made on this builder, in order
    setter,       \* the last connection-type setter called on this builder, whether
                  \* parts() gave it the head to write, and the setter called before it
    self,         \* the Response under test, when a Response is what is operated on
    rpre,         \* that Response before the last operation on it
    bodyType,     \* the type B of that Response<B>
    rlast         \* the last operation on it: its name, its argument, what it returned,
                  \* and how many times in a row it has been applied

vars == <<head, err, cookies, moved, pre, last, calls, returned, jsonReturned, sinceLatch,
          staged, setter, self, rpre, bodyType, rlast>>

\* The builder's part of the state
bvars == <<head, err, cookies, moved, pre, last, returned, jsonReturned, sinceLatch, staged,
           setter>>

\* The builder calls that set the connection type
ConnectionSetters == {"keep_alive", "force_close", "upgrade"}

\* No connection-type setter called yet
NoSetter == [op |-> "none", arg |-> None, live |-> FALSE, before |-> "none"]

\* The Response's part of the state
rvars == <<self, rpre, bodyType, rlast>>

\* parts without its look at the error slot
parts_unlatched(h, e) == h

\* fn parts(parts, err): the head a mutator may write, if any
parts(h, e) == IF IsSome(e) THEN None ELSE h


\* What a mutator leaves in the builder's head and err
Fields(h, e) == [head |-> h, err |-> e]

\* ResponseBuilder::new
new(st) == [head |-> Some(NewHead(st)), err |-> None, cookies |-> None]

\* ResponseBuilder::status
status(h, e, st) ==
    IF IsSome(parts(h, e))
    THEN Fields(Some([Unwrap(h) EXCEPT !.status = st]), e)
    ELSE Fields(h, e)

\* ResponseBuilder::set
set(h, e, hdr) ==
    IF IsSome(parts(h, e))
    THEN IF hdr.ok
         THEN Fields(Some([Unwrap(h) EXCEPT !.headers = append(@, hdr.name, hdr.value)]), e)
         ELSE Fields(h, Some(HttpError("InvalidHeaderValue")))
    ELSE Fields(h, e)

\* header converting its arguments before it asks parts for the head
header_eager(h, e, key, value) ==
    LET k == HeaderName_try_from(key)
        v == HeaderValue_try_from(value)
    IN  IF ~k.ok THEN Fields(h, Some(HttpError(k.e)))
        ELSE IF ~v.ok THEN Fields(h, Some(HttpError(v.e)))
        ELSE IF IsSome(parts(h, e))
             THEN Fields(Some([Unwrap(h) EXCEPT !.headers = append(@, k.v, v.v)]), e)
             ELSE Fields(h, e)

\* ResponseBuilder::header
header(h, e, key, value) ==
    IF IsSome(parts(h, e))
    THEN LET k == HeaderName_try_from(key)
             v == HeaderValue_try_from(value)
         IN  IF k.ok
             THEN IF v.ok
                  THEN Fields(Some([Unwrap(h) EXCEPT !.headers = append(@, k.v, v.v)]), e)
                  ELSE Fields(h, Some(HttpError(v.e)))
             ELSE Fields(h, Some(HttpError(k.e)))
    ELSE Fields(h, e)

\* set_header appending where it should replace
set_header_appending(h, e, key, value) == header(h, e, key, value)

\* ResponseBuilder::set_header
set_header(h, e, key, value) ==
    IF IsSome(parts(h, e))
    THEN LET k == HeaderName_try_from(key)
             v == HeaderValue_try_from(value)
         IN  IF k.ok
             THEN IF v.ok
                  THEN Fields(Some([Unwrap(h) EXCEPT !.headers = insert(@, k.v, v.v)]), e)
                  ELSE Fields(h, Some(HttpError(v.e)))
             ELSE Fields(h, Some(HttpError(k.e)))
    ELSE Fields(h, e)

\* ResponseBuilder::reason
reason(h, e, r) ==
    IF IsSome(parts(h, e))
    THEN Fields(Some([Unwrap(h) EXCEPT !.reason = Some(r)]), e)
    ELSE Fields(h, e)

\* ResponseBuilder::keep_alive
keep_alive(h, e) ==
    IF IsSome(parts(h, e))
    THEN Fields(Some(set_connection_type(Unwrap(h), "KeepAlive")), e)
    ELSE Fields(h, e)

\* upgrade setting the connection type without asking parts
upgrade_unguarded(h, e, value) ==
    LET h1 == IF IsSome(h)
              THEN Some(set_connection_type(Unwrap(h), "Upgrade"))
              ELSE h
    IN  set_header(h1, e, "upgrade", value)

\* ResponseBuilder::upgrade
upgrade(h, e, value) ==
    LET h1 == IF IsSome(parts(h, e))
              THEN Some(set_connection_type(Unwrap(h), "Upgrade"))
              ELSE h
    IN  set_header(h1, e, "upgrade", value)

\* force_close leaving the connection type as it was
force_close_inert(h, e) == Fields(h, e)

\* ResponseBuilder::force_close
force_close(h, e) ==
    IF IsSome(parts(h, e))
    THEN Fields(Some(set_connection_type(Unwrap(h), "Close")), e)
    ELSE Fields(h, e)

\* ResponseBuilder::no_chunking
no_chunking(h, e) ==
    IF IsSome(parts(h, e))
    THEN Fields(Some([Unwrap(h) EXCEPT !.no_chunking = TRUE]), e)
    ELSE Fields(h, e)

\* ResponseBuilder::content_type
content_type(h, e, value) ==
    IF IsSome(parts(h, e))
    THEN LET v == HeaderValue_try_from(value)
         IN  IF v.ok
             THEN Fields(Some([Unwrap(h) EXCEPT !.headers = insert(@, "content-type", v.v)]), e)
             ELSE Fields(h, Some(HttpError(v.e)))
    ELSE Fields(h, e)

\* ResponseBuilder::content_length
content_length(h, e, len) == header(h, e, "content-length", Decimal(len))

(***************************************************************************)
(* The cookie jar: cookies are keyed by name in both of its sets           *)
(***************************************************************************)
\* CookieJar::new
NewJar == [original |-> {}, delta |-> {}]

\* A set that keeps an older entry of the same name
replace_keeping(hs, d) == hs \cup {d}

\* HashSet::replace on a set keyed by the cookie's name
replace(hs, d) == {x \in hs : x.cookie.name # d.cookie.name} \cup {d}

\* CookieJar::add_original
add_original(jar, c) ==
    [jar EXCEPT !.original = replace(@, [cookie |-> c, removed |-> FALSE])]

\* CookieJar::add keeping the entry a name already has
add_first(jar, c) ==
    IF \E d \in jar.delta : d.cookie.name = c.name
    THEN jar
    ELSE [jar EXCEPT !.delta = @ \cup {[cookie |-> c, removed |-> FALSE]}]

\* CookieJar::add
add(jar, c) ==
    [jar EXCEPT !.delta = replace(@, [cookie |-> c, removed |-> FALSE])]

\* CookieJar::remove taking every cookie for one that is no original
remove_forgetting(jar, c) == [jar EXCEPT !.delta = {x \in @ : x.cookie.name # c.name}]

\* CookieJar::remove: a removal cookie if the name is an original, else forget it
remove(jar, c) ==
    IF \E o \in jar.original : o.cookie.name = c.name
    THEN [jar EXCEPT !.delta = replace(@, [cookie |-> removal_cookie(c), removed |-> TRUE])]
    ELSE [jar EXCEPT !.delta = {x \in @ : x.cookie.name # c.name}]

\* The orders in which CookieJar::delta may yield the cookies of its hash set
DeltaOrders(cs) ==
    IF IsSome(cs)
    THEN LET D == { d.cookie : d \in Unwrap(cs).delta }
         IN  { s \in [1..Cardinality(D) -> D] : \A i, j \in 1..Cardinality(D) : s[i] = s[j] => i = j }
    ELSE {<<>>}

\* ResponseBuilder::cookie
cookie(cs, c) ==
    IF cs = None THEN Some(add(NewJar, c)) ELSE Some(add(Unwrap(cs), c))

\* ResponseBuilder::del_cookie
del_cookie(cs, c) ==
    LET jar == IF cs = None THEN NewJar ELSE Unwrap(cs)
    IN  Some(remove(add_original(jar, c), c))

(***************************************************************************)
(* Terminal calls                                                          *)
(***************************************************************************)
\* What a terminal call leaves in the builder, and what it yields:
\* kind "resp" with the Response, or kind "panic"
Outcome(h, e, cs, kind, resp) ==
    [head |-> h, err |-> e, cookies |-> cs, kind |-> kind, resp |-> resp]

\* The loop over jar.delta() passing over a cookie that is no header value
RECURSIVE merge_cookies_skipping(_, _)
merge_cookies_skipping(headers, ord) ==
    IF ord = <<>>
    THEN [ok |-> TRUE, headers |-> headers, e |-> ""]
    ELSE LET v == HeaderValue_try_from(cookie_to_string(Head(ord)))
         IN  IF v.ok
             THEN merge_cookies_skipping(append(headers, "set-cookie", v.v), Tail(ord))
             ELSE merge_cookies_skipping(headers, Tail(ord))

\* The loop over jar.delta(): append one Set-Cookie per cookie, stop at the
\* first cookie that is no header value
RECURSIVE merge_cookies(_, _)
merge_cookies(headers, ord) ==
    IF ord = <<>>
    THEN [ok |-> TRUE, headers |-> headers, e |-> ""]
    ELSE LET v == HeaderValue_try_from(cookie_to_string(Head(ord)))
         IN  IF v.ok
             THEN merge_cookies(append(headers, "set-cookie", v.v), Tail(ord))
             ELSE [ok |-> FALSE, headers |-> headers, e |-> v.e]

\* message_body building a response from a fresh head when the head is gone
message_body_degenerate(h, e, cs, body, ord) ==
    IF IsSome(e)
    THEN Outcome(h, None, cs, "resp", Some(into_body(from_error(Unwrap(e)))))
    ELSE LET response == IF h = None THEN NewHead("OK") ELSE Unwrap(h)
             m == merge_cookies(response.headers, IF IsSome(cs) THEN ord ELSE <<>>)
         IN  IF m.ok
             THEN Outcome(None, e, cs, "resp",
                          Some([head |-> [response EXCEPT !.headers = m.headers],
                                body |-> [arm |-> "Body", b |-> body],
                                error |-> None]))
             ELSE Outcome(None, e, cs, "resp", Some(into_body(from_error(m.e))))

\* ResponseBuilder::message_body; ord is the order jar.delta() yields
message_body(h, e, cs, body, ord) ==
    IF IsSome(e)
    THEN Outcome(h, None, cs, "resp", Some(into_body(from_error(Unwrap(e)))))
    ELSE IF h = None
         THEN Outcome(h, e, cs, "panic", None)
         ELSE LET response == Unwrap(h)
                  m == merge_cookies(response.headers, IF IsSome(cs) THEN ord ELSE <<>>)
              IN  IF m.ok
                  THEN Outcome(None, e, cs, "resp",
                               Some([head |-> [response EXCEPT !.headers = m.headers],
                                     body |-> [arm |-> "Body", b |-> body],
                                     error |-> None]))
                  ELSE Outcome(None, e, cs, "resp", Some(into_body(from_error(m.e))))

\* ResponseBuilder::body
body(h, e, cs, b, ord) == message_body(h, e, cs, b, ord)

\* ResponseBuilder::streaming
streaming(h, e, cs, stream, ord) == body(h, e, cs, BodyMessage(stream), ord)

\* ResponseBuilder::finish
finish(h, e, cs, ord) == body(h, e, cs, BodyEmpty, ord)

\* json2 setting the content type without the check for a staged one
json2_always_sets(h, e, cs, value, ord) ==
    LET r == serde_json_to_string(value)
    IN  IF r.ok
        THEN LET f == set_header(h, e, "content-type", "application/json")
             IN  body(f.head, f.err, cs, BodyBytes(r.v), ord)
        ELSE Outcome(h, e, cs, "resp", Some(from_error(r.e)))

\* json2 reporting a latched fault before it serializes
json2_slot_first(h, e, cs, value, ord) ==
    LET r == serde_json_to_string(value)
    IN  IF IsSome(e) \/ r.ok
        THEN LET contains == IF IsSome(parts(h, e))
                             THEN contains_key(Unwrap(h).headers, "content-type")
                             ELSE TRUE
                 f == IF ~contains
                      THEN header(h, e, "content-type", "application/json")
                      ELSE Fields(h, e)
             IN  body(f.head, f.err, cs, BodyBytes(r.v), ord)
        ELSE Outcome(h, e, cs, "resp", Some(from_error(r.e)))

\* ResponseBuilder::json2
json2(h, e, cs, value, ord) ==
    LET r == serde_json_to_string(value)
    IN  IF r.ok
        THEN LET contains == IF IsSome(parts(h, e))
                             THEN contains_key(Unwrap(h).headers, "content-type")
                             ELSE TRUE
                 f == IF ~contains
                      THEN header(h, e, "content-type", "application/json")
                      ELSE Fields(h, e)
             IN  body(f.head, f.err, cs, BodyBytes(r.v), ord)
        ELSE Outcome(h, e, cs, "resp", Some(from_error(r.e)))

\* ResponseBuilder::json
json(h, e, cs, value, ord) == json2(h, e, cs, value, ord)

\* ResponseBuilder::take: the builder it returns
take(h, e, cs) == [head |-> h, err |-> e, cookies |-> cs]

\* The conversions' loop staging the cookies of the response as fresh ones
RECURSIVE load_jar_pending(_, _)
load_jar_pending(jar, cs) ==
    IF cs = <<>>
    THEN jar
    ELSE load_jar_pending(Some(add(IF jar = None THEN NewJar ELSE Unwrap(jar), Head(cs))),
                          Tail(cs))

\* The loop of both conversions: the jar the cookies of a response are loaded into
RECURSIVE load_jar(_, _)
load_jar(jar, cs) ==
    IF cs = <<>>
    THEN jar
    ELSE load_jar(Some(add_original(IF jar = None THEN NewJar ELSE Unwrap(jar), Head(cs))),
                  Tail(cs))

\* From<Response<B>> for ResponseBuilder
from_response(res) ==
    [head |-> Some(res.head), err |-> None, cookies |-> load_jar(None, Response_cookies(res))]

\* From<&ResponseHead> staging the cookies of the head as fresh ones
from_head_pending(h) ==
    [head |-> Some([NewHead(h.status) EXCEPT !.version = h.version, !.reason = h.reason,
                                             !.headers = h.headers,
                                             !.no_chunking = h.no_chunking]),
     err |-> None,
     cookies |-> load_jar_pending(None, CookieIter(h.headers["set-cookie"]))]

\* From<&ResponseHead> for ResponseBuilder
from_head(h) ==
    [head |-> Some([NewHead(h.status) EXCEPT !.version = h.version, !.reason = h.reason,
                                             !.headers = h.headers,
                                             !.no_chunking = h.no_chunking]),
     err |-> None,
     cookies |-> load_jar(None, CookieIter(h.headers["set-cookie"]))]

(***************************************************************************)
(* The state machine: one builder, one call per step                       *)
(***************************************************************************)
\* A response that carries the cookies a=1 and b=2
BaselineResponse ==
    add_cookie(add_cookie(Response_new("OK"), NewCookie("a", "1")).resp,
               NewCookie("b", "2")).resp

\* A response whose first Set-Cookie line is not ASCII and whose second is a=1
NonAsciiFirstResponse ==
    add_cookie(add_cookie(Response_new("OK"), NewCookie("c", NonAscii)).resp,
               NewCookie("a", "1")).resp

\* The ways the builder under test is constructed
Constructions ==
    {[op |-> "new", arg |-> st, builder |-> new(st)] : st \in StatusCodes}
      \cup {[op |-> "from_response", arg |-> BaselineResponse,
              builder |-> from_response(BaselineResponse)],
             [op |-> "from_head", arg |-> BaselineResponse.head,
              builder |-> from_head(BaselineResponse.head)],
             [op |-> "from_response", arg |-> NonAsciiFirstResponse,
              builder |-> from_response(NonAsciiFirstResponse)]}

Snapshot == [head |-> head, err |-> err, cookies |-> cookies,
             returned |-> returned, moved |-> moved, jsonReturned |-> jsonReturned,
             sinceLatch |-> sinceLatch]

Init ==
    \E c \in Constructions :
        /\ head = c.builder.head
        /\ err = c.builder.err
        /\ cookies = c.builder.cookies
        /\ staged = <<>>
        /\ setter = NoSetter
        /\ self = None
        /\ bodyType = "Body"
        /\ rpre = None
        /\ rlast = [op |-> "none", arg |-> None, out |-> None, streak |-> 0]
        /\ moved = None
        /\ calls = 0
        /\ returned = 0
        /\ jsonReturned = FALSE
        /\ sinceLatch = 0
        /\ pre = [head |-> c.builder.head, err |-> c.builder.err,
                  cookies |-> c.builder.cookies,
                  returned |-> 0, moved |-> None, jsonReturned |-> FALSE,
                  sinceLatch |-> 0]
        /\ last = [op |-> c.op, arg |-> c.arg, kind |-> "none", resp |-> None]

\* A mutator of head and err was called
Mutated(op, arg, f) ==
    /\ calls < MaxCalls
    /\ calls' = calls + 1
    /\ pre' = Snapshot
    /\ head' = f.head
    /\ err' = f.err
    /\ last' = [op |-> op, arg |-> arg, kind |-> "none", resp |-> None]
    /\ sinceLatch' = IF IsSome(err) THEN sinceLatch + 1 ELSE 0
    /\ setter' = IF op \in ConnectionSetters
                 THEN [op |-> op, arg |-> arg, live |-> IsSome(parts(head, err)),
                       before |-> setter.op]
                 ELSE setter
    /\ UNCHANGED <<cookies, moved, returned, jsonReturned, staged, rvars>>

\* A mutator of the cookie jar was called
Staged(op, arg, cs) ==
    /\ calls < MaxCalls
    /\ calls' = calls + 1
    /\ pre' = Snapshot
    /\ cookies' = cs
    /\ last' = [op |-> op, arg |-> arg, kind |-> "none", resp |-> None]
    /\ sinceLatch' = IF IsSome(err) THEN sinceLatch + 1 ELSE 0
    /\ staged' = Append(staged, [op |-> op, cookie |-> arg])
    /\ UNCHANGED <<head, err, moved, returned, jsonReturned, setter, rvars>>

\* A terminal call was made
Finalized(op, arg, o) ==
    /\ calls < MaxCalls
    /\ calls' = calls + 1
    /\ pre' = Snapshot
    /\ head' = o.head
    /\ err' = o.err
    /\ cookies' = o.cookies
    /\ last' = [op |-> op, arg |-> arg, kind |-> o.kind, resp |-> o.resp]
    /\ returned' = IF o.kind = "resp" THEN returned + 1 ELSE returned
    /\ jsonReturned' = (jsonReturned \/ (op \in {"json", "json2"} /\ o.kind = "resp"))
    /\ sinceLatch' = IF IsSome(o.err) THEN sinceLatch ELSE 0
    /\ UNCHANGED <<moved, staged, setter, rvars>>

Status == \E st \in StatusCodes : Mutated("status", st, status(head, err, st))

Set == \E hdr \in TypedHeaders : Mutated("set", hdr, set(head, err, hdr))

Header ==
    \E key \in HeaderKeys, value \in HeaderValues :
        Mutated("header", <<key, value>>, header(head, err, key, value))

SetHeader ==
    \E key \in HeaderKeys, value \in HeaderValues :
        Mutated("set_header", <<key, value>>, set_header(head, err, key, value))

Reason == \E r \in Reasons : Mutated("reason", r, reason(head, err, r))

KeepAlive == Mutated("keep_alive", None, keep_alive(head, err))

Upgrade == \E value \in UpgradeValues : Mutated("upgrade", value, upgrade(head, err, value))

ForceClose == Mutated("force_close", None, force_close(head, err))

NoChunking == Mutated("no_chunking", None, no_chunking(head, err))

ContentType ==
    \E value \in HeaderValues : Mutated("content_type", value, content_type(head, err, value))

ContentLength ==
    \E len \in ContentLengths : Mutated("content_length", len, content_length(head, err, len))

CookieCall == \E c \in Cookies : Staged("cookie", c, cookie(cookies, c))

DelCookie == \E c \in Cookies : Staged("del_cookie", c, del_cookie(cookies, c))

BodyCall ==
    \E b \in Bodies, ord \in DeltaOrders(cookies) :
        Finalized("body", b, body(head, err, cookies, b, ord))

MessageBody ==
    \E b \in Bodies, ord \in DeltaOrders(cookies) :
        Finalized("message_body", b, message_body(head, err, cookies, b, ord))

Streaming ==
    \E stream \in Streams, ord \in DeltaOrders(cookies) :
        Finalized("streaming", BodyMessage(stream), streaming(head, err, cookies, stream, ord))

Json ==
    \E value \in JsonValues, ord \in DeltaOrders(cookies) :
        Finalized("json", value, json(head, err, cookies, value, ord))

Json2 ==
    \E value \in JsonValues, ord \in DeltaOrders(cookies) :
        Finalized("json2", value, json2(head, err, cookies, value, ord))

Finish ==
    \E ord \in DeltaOrders(cookies) :
        Finalized("finish", BodyEmpty, finish(head, err, cookies, ord))

Take ==
    /\ calls < MaxCalls
    /\ calls' = calls + 1
    /\ pre' = Snapshot
    /\ moved' = Some(take(head, err, cookies))
    /\ head' = None
    /\ err' = None
    /\ cookies' = None
    /\ last' = [op |-> "take", arg |-> None, kind |-> "builder", resp |-> None]
    /\ sinceLatch' = 0
    /\ staged' = <<>>
    /\ setter' = NoSetter
    /\ UNCHANGED <<returned, jsonReturned, rvars>>

Next ==
    \/ Status \/ Set \/ Header \/ SetHeader \/ Reason \/ KeepAlive \/ Upgrade
    \/ ForceClose \/ NoChunking \/ ContentType \/ ContentLength
    \/ CookieCall \/ DelCookie
    \/ BodyCall \/ MessageBody \/ Streaming \/ Json \/ Json2 \/ Finish
    \/ Take

Spec == Init /\ [][Next]_vars

(***************************************************************************)
(* Response: its body operators and the conversions into it                *)
(***************************************************************************)
\* The body of Response<()>
BodyUnit == [kind |-> "Unit", data |-> ""]

\* Response::with_body
with_body(st, b) ==
    [head |-> NewHead(st), body |-> [arm |-> "Body", b |-> b], error |-> None]

\* Response::set_body
set_body(r, b) ==
    [head |-> r.head, body |-> [arm |-> "Body", b |-> b], error |-> None]

\* Response::drop_body
drop_body(r) ==
    [head |-> r.head, body |-> [arm |-> "Body", b |-> BodyUnit], error |-> None]

\* Response::replace_body: the new Response and the body it displaced
replace_body(r, b) ==
    [resp |-> [head |-> r.head, body |-> [arm |-> "Body", b |-> b], error |-> r.error],
     out |-> r.body]

\* The closures handed to map_body: given the head and the body, the head as
\* they leave it and the body they return
MapFns == {"same", "sized"}

call(f, h, b) ==
    IF f = "sized"
    THEN [head |-> [h EXCEPT !.headers = insert(@, "content-length", "6")],
          body |-> [arm |-> "Body", b |-> BodyBytes("mapped")]]
    ELSE [head |-> h, body |-> b]

\* Response::map_body
map_body(r, f) ==
    [head |-> call(f, r.head, r.body).head,
     body |-> call(f, r.head, r.body).body,
     error |-> r.error]

\* ResponseBody::take_body: the body it returns and what it leaves behind
ResponseBody_take_body(b) == [out |-> b, left |-> [arm |-> "Other", b |-> BodyEmpty]]

\* take_body leaving the body where it was
take_body_copying(r) == [resp |-> r, out |-> r.body]

\* Response::take_body
take_body(r) ==
    [resp |-> [r EXCEPT !.body = ResponseBody_take_body(r.body).left],
     out |-> ResponseBody_take_body(r.body).out]

\* Response::Ok().content_type(ct).body(val), the body of every conversion
converted(ct, val) ==
    LET b == new("OK")
        f == content_type(b.head, b.err, ct)
    IN  Unwrap(body(f.head, f.err, b.cookies, BodyBytes(val), <<>>).resp)

\* From<&'static str> for Response
from_str(val) == converted("text/plain; charset=utf-8", val)

\* From<&'static [u8]> marking its payload as text
from_slice_text(val) == converted("text/plain; charset=utf-8", val)

\* From<&'static [u8]> for Response
from_slice(val) == converted("application/octet-stream", val)

\* From<String> for Response
from_string(val) == converted("text/plain; charset=utf-8", val)

\* From<&String> for Response
from_string_ref(val) == converted("text/plain; charset=utf-8", val)

\* From<Bytes> for Response
from_bytes(val) == converted("application/octet-stream", val)

\* From<BytesMut> for Response
from_bytes_mut(val) == converted("application/octet-stream", val)

\* The conversion named kind
from(kind, val) ==
    CASE kind = "&str" -> from_str(val)
      [] kind = "&[u8]" -> from_slice(val)
      [] kind = "String" -> from_string(val)
      [] kind = "&String" -> from_string_ref(val)
      [] kind = "Bytes" -> from_bytes(val)
      [] kind = "BytesMut" -> from_bytes_mut(val)

TextKinds == {"&str", "String", "&String"}
ByteKinds == {"&[u8]", "Bytes", "BytesMut"}

\* The payloads converted: text, the empty payload, and bytes no header could hold
Payloads == {"test", "", BadValue}

\* The faults error responses are made from
Faults == {"InvalidHeaderValue", HttpError("InvalidHeaderName")}

\* A response whose head has every field set
FullHeadResponse ==
    LET b == new("NOT_FOUND")
        f1 == header(b.head, b.err, "X-TEST", "text/json")
        f2 == reason(f1.head, f1.err, "Custom")
        f3 == force_close(f2.head, f2.err)
        f4 == no_chunking(f3.head, f3.err)
    IN  Unwrap(body(f4.head, f4.err, b.cookies, BodyBytes("hello"), <<>>).resp)

\* A cookie whose value is not ASCII: it encodes into a header value that
\* to_str() refuses
NonAsciiCookie == NewCookie("c", NonAscii)

\* The response of a builder finished with that cookie staged
NonAsciiResponse ==
    LET b == new("OK")
        cs == cookie(b.cookies, NonAsciiCookie)
    IN  Unwrap(finish(b.head, b.err, cs, <<NonAsciiCookie>>).resp)

\* A Set-Cookie value that is no cookie
NoCookie == "garbage"

\* A response with two Set-Cookie lines for a, one for b and one that does
\* not parse
MixedResponse ==
    LET r1 == add_cookie(Response_new("OK"), NewCookie("a", "1")).resp
        r2 == [r1 EXCEPT !.head.headers = append(@, "set-cookie", NoCookie)]
        r3 == add_cookie(r2, NewCookie("b", "2")).resp
    IN  add_cookie(r3, removal_cookie(NewCookie("a", "1"))).resp

\* The responses the operators are first applied to
Responses ==
    {Response_new(st) : st \in StatusCodes}
      \cup {from_error(e) : e \in Faults}
      \cup {into_body(from_error(e)) : e \in Faults}
      \cup {with_body("OK", BodyMessage("stream")), FullHeadResponse, BaselineResponse,
             MixedResponse, NonAsciiResponse}

(***************************************************************************)
(* The state machine of one Response, one operation per step               *)
(***************************************************************************)
InitResponse ==
    /\ self \in Responses
    /\ rpre = self
    /\ bodyType = "Body"
    /\ rlast = [op |-> "none", arg |-> None, out |-> None, streak |-> 0]
    /\ calls = 0
    /\ head = new("OK").head
    /\ err = new("OK").err
    /\ cookies = new("OK").cookies
    /\ moved = None
    /\ returned = 0
    /\ jsonReturned = FALSE
    /\ sinceLatch = 0
    /\ staged = <<>>
    /\ setter = NoSetter
    /\ pre = [head |-> new("OK").head, err |-> new("OK").err, cookies |-> new("OK").cookies,
              returned |-> 0, moved |-> None, jsonReturned |-> FALSE, sinceLatch |-> 0]
    /\ last = [op |-> "new", arg |-> "OK", kind |-> "none", resp |-> None]

\* The body types B of the Responses of the model
BodyTypes == {"Body", "()"}

\* An operation was applied to the Response: r is the Response it leaves or
\* returns, ty its body type, out what else it returns
Operated(op, arg, r, ty, out) ==
    /\ calls < MaxCalls
    /\ calls' = calls + 1
    /\ rpre' = self
    /\ self' = r
    /\ bodyType' = ty
    /\ rlast' = [op |-> op, arg |-> arg, out |-> out,
                 streak |-> IF op = rlast.op THEN rlast.streak + 1 ELSE 1]
    /\ UNCHANGED bvars

TakeBody ==
    Operated("take_body", None, take_body(self).resp, bodyType, Some(take_body(self).out))

SetBody == \E b \in Bodies : Operated("set_body", b, set_body(self, b), "Body", None)

DropBody == Operated("drop_body", None, drop_body(self), "()", None)

ReplaceBody ==
    \E b \in Bodies :
        Operated("replace_body", b, replace_body(self, b).resp, "Body",
                 Some(replace_body(self, b).out))

MapBody ==
    \E f \in MapFns :
        Operated("map_body", f, map_body(self, f), IF f = "sized" THEN "Body" ELSE bodyType,
                 None)

\* into_body is a method of Response<Body> only; it gives a Response<B> for
\* the B the caller asks for
IntoBody ==
    /\ bodyType = "Body"
    /\ \E ty \in BodyTypes : Operated("into_body", ty, into_body(self), ty, None)

From ==
    \E kind \in TextKinds \cup ByteKinds, val \in Payloads :
        Operated("from", [kind |-> kind, val |-> val], from(kind, val), "Body", None)

AddCookie ==
    \E c \in Cookies \cup {NonAsciiCookie} :
        Operated("add_cookie", c, add_cookie(self, c).resp, bodyType,
                 Some(add_cookie(self, c).ok))

DelCookieNamed ==
    \E n \in CookieNames :
        Operated("del_cookie", n, Response_del_cookie(self, n).resp, bodyType,
                 Some(Response_del_cookie(self, n).out))

\* The Response, or its head, is converted into a builder and the builder is
\* finished at once
IntoBuilder ==
    \E via \in {"Response", "ResponseHead"} :
        LET b == IF via = "Response" THEN from_response(self) ELSE from_head(self.head)
        IN  \E ord \in DeltaOrders(b.cookies) :
                Operated("into_builder", via,
                         Unwrap(finish(b.head, b.err, b.cookies, ord).resp), "Body", Some(b))

\* *status_mut() = st
StatusMut ==
    \E st \in StatusCodes :
        Operated("status_mut", st, [self EXCEPT !.head.status = st], bodyType, None)

\* The writes made through headers_mut()
HeaderWrites == {[key |-> "x-test", value |-> "text/json"],
                 [key |-> "set-cookie", value |-> "caf" \o NonAscii]}

\* headers_mut().append(key, value)
HeadersMut ==
    \E w \in HeaderWrites :
        Operated("headers_mut", w, [self EXCEPT !.head.headers = append(@, w.key, w.value)],
                 bodyType, None)

\* head_mut().reason = Some(r)
HeadMut ==
    \E r \in Reasons :
        Operated("head_mut", r, [self EXCEPT !.head.reason = Some(r)], bodyType, None)

NextResponse ==
    \/ IntoBuilder
    \/ TakeBody \/ SetBody \/ DropBody \/ ReplaceBody \/ MapBody \/ IntoBody \/ From
    \/ AddCookie \/ DelCookieNamed
    \/ StatusMut \/ HeadersMut \/ HeadMut

SpecResponse == InitResponse /\ [][NextResponse]_vars

(***************************************************************************)
(* Properties                                                              *)
(***************************************************************************)
Terminals == {"body", "message_body", "finish", "streaming", "json", "json2"}
HeaderMutators == {"header", "set_header", "set", "content_type", "content_length", "upgrade"}
CookieMutators == {"cookie", "del_cookie"}
HeadMutators == {"status", "reason", "keep_alive", "force_close", "no_chunking"}
Mutators == HeaderMutators \cup CookieMutators \cup HeadMutators

\* The last call was json or json2
JsonCall == last.op \in {"json", "json2"}

\* The last call was a terminal call that reads the error slot: every terminal
\* call but json/json2 with a value that does not serialize
SlotTerminal == last.op \in Terminals /\ (JsonCall => last.arg.kind = "vec")

\* The Response the last call returned
Resp == Unwrap(last.resp)

\* The Response is nothing but the conversion of a fault: the fault as its
\* error, the head of the fault's error response, no header, no cookie, an
\* empty body
BareErrorResponse(r, fault) ==
    /\ r.error = Some(fault)
    /\ r.head = error_response(fault).head
    /\ r.head.headers = NoHeaders
    /\ r.body.b = BodyEmpty

\* A staged cookie that does not encode into a header value
CookieFault(cs) == IsSome(cs) /\ \E d \in Unwrap(cs).delta : d.cookie.value = BadValue

\* s is a prefix of t
IsPrefix(s, t) == Len(s) <= Len(t) /\ SubSeq(t, 1, Len(s)) = s

\* C1: once a header fault is latched, no mutator call changes the latched
\* fault, and the next terminal call (json with a serializable value included)
\* returns the error response converted from it: none of the staged headers,
\* none of the staged cookies, not the supplied body.
C1_LatchedFaultDecidesOutcome ==
    IsSome(pre.err) =>
        /\ last.op \in Mutators => err = pre.err
        /\ SlotTerminal =>
            /\ last.kind = "resp"
            /\ BareErrorResponse(Resp, Unwrap(pre.err))

\* A terminal call with a body on a builder that holds a latched fault and a
\* cookie, where a mutator was called after the fault latched
C1_Witness ==
    /\ IsSome(pre.err)
    /\ pre.sinceLatch >= 1
    /\ IsSome(pre.cookies) /\ Unwrap(pre.cookies).delta # {}
    /\ last.op = "body"
    /\ last.kind = "resp"

\* C2: the error slot holds the first fault: a populated slot changes only by
\* a terminal call or by take() (which moves it, unchanged, into the new
\* builder); a failing header call on an empty slot latches its own fault.
C2_FirstFaultKept ==
    /\ (IsSome(pre.err) /\ err # pre.err) => last.op \in Terminals \cup {"take"}
    /\ (IsSome(pre.err) /\ last.op = "take") => Unwrap(moved).err = pre.err
    /\ (pre.err = None /\ IsSome(err)) =>
          /\ last.op \in HeaderMutators
          /\ last.op \in {"header", "set_header"} =>
                err = Some(HttpError(IF last.arg[1] = BadName
                                     THEN "InvalidHeaderName"
                                     ELSE "InvalidHeaderValue"))

\* A header call with an invalid name made after an invalid value was latched
C2_Witness ==
    /\ pre.err = Some(HttpError("InvalidHeaderValue"))
    /\ last.op = "header"
    /\ last.arg[1] = BadName
    /\ err = pre.err

\* C3 as stated: once a fault is latched every header-mutating and every
\* cookie-mutating call leaves head, error slot and cookie set unchanged.
C3_Original ==
    (IsSome(pre.err) /\ last.op \in HeaderMutators \cup CookieMutators) =>
        /\ head = pre.head
        /\ err = pre.err
        /\ cookies = pre.cookies

\* C3 amended: once a fault is latched every header-mutating call leaves head,
\* error slot and cookie set unchanged; cookie and del_cookie leave head and
\* error slot unchanged but still stage their cookie in the cookie set.
C3_Amended ==
    IsSome(pre.err) =>
        /\ last.op \in HeaderMutators =>
              head = pre.head /\ err = pre.err /\ cookies = pre.cookies
        /\ last.op \in CookieMutators =>
              /\ head = pre.head /\ err = pre.err
              /\ IsSome(cookies)
              /\ \E d \in Unwrap(cookies).delta :
                    /\ d.cookie.name = last.arg.name
                    /\ d.removed = (last.op = "del_cookie")

\* upgrade called on a builder that holds a head and a latched fault
C3_Witness ==
    /\ IsSome(pre.err)
    /\ IsSome(pre.head)
    /\ last.op = "upgrade"
    /\ last.arg = "websocket"

\* C4: after a terminal call has returned a Response, every further terminal
\* call panics.
C4_SingleUse ==
    (pre.returned >= 1 /\ last.op \in Terminals) => last.kind = "panic"

\* C5: a terminal call that finds the error slot populated returns the
\* response synthesized from the fault alone and leaves the builder without
\* the head it had accumulated.
C5_HeadDiscarded ==
    (IsSome(pre.err) /\ SlotTerminal) =>
        /\ last.kind = "resp"
        /\ BareErrorResponse(Resp, Unwrap(pre.err))
        /\ head = None

\* C6 as stated: every call on a builder consumed by a terminal call or
\* emptied by take() is a usage fault.
C6_Original ==
    ((pre.returned >= 1 \/ IsSome(pre.moved)) /\ last.op \in Mutators \cup Terminals) =>
        last.kind = "panic"

\* C6 amended: on a builder left without a head (by a terminal call that built
\* its response from the head, or by take()) the terminal calls that read the
\* head panic, each mutator returns normally, the head stays absent and the
\* error slot empty, and only cookie and del_cookie change anything (the
\* cookie set).
C6_Amended ==
    pre.head = None =>
        /\ pre.err = None
        /\ SlotTerminal => last.kind = "panic"
        /\ last.op \in Mutators =>
              last.kind = "none" /\ head = None /\ err = None
        /\ last.op \in HeaderMutators \cup HeadMutators => cookies = pre.cookies

\* A failing header call made on a consumed builder
C6_Witness ==
    /\ pre.head = None
    /\ pre.returned >= 1
    /\ last.op = "header"
    /\ last.arg[2] = BadValue

\* A fault that depends on the data: latched, in a staged cookie, or in the
\* value handed to json
DataFault ==
    \/ IsSome(pre.err)
    \/ CookieFault(pre.cookies)
    \/ (JsonCall /\ last.arg.kind # "vec")

\* The body the last terminal call was to install
SuppliedBody ==
    IF JsonCall THEN BodyBytes("[\"v1\",\"v2\"]") ELSE last.arg

\* C7: the first terminal call on a builder not yet consumed returns a
\* Response and does not panic; the Response carries an error exactly if a
\* data-dependent fault occurred, and otherwise carries the status last set,
\* every staged header and the supplied body.
C7_FirstTerminalReturns ==
    (pre.returned = 0 /\ pre.moved = None /\ last.op \in Terminals) =>
        /\ last.kind = "resp"
        /\ IsSome(Resp.error) <=> DataFault
        /\ ~DataFault =>
              /\ Resp.head.status = Unwrap(pre.head).status
              /\ \A k \in HeaderNames :
                    IsPrefix(Unwrap(pre.head).headers[k], Resp.head.headers[k])
              /\ Resp.body = [arm |-> "Body", b |-> SuppliedBody]

\* A first terminal call turned into an error response by a staged cookie
C7_Witness ==
    /\ pre.returned = 0 /\ pre.moved = None
    /\ last.op = "finish"
    /\ pre.err = None
    /\ CookieFault(pre.cookies)
    /\ IsSome(Resp.error)

\* The Content-Type values staged before the last call
StagedContentType ==
    IF IsSome(pre.head) THEN Unwrap(pre.head).headers["content-type"] ELSE <<>>

\* What C8 says of the Response of json/json2
JsonContentType ==
    /\ StagedContentType # <<>> => Resp.head.headers["content-type"] = StagedContentType
    /\ StagedContentType = <<>> => Resp.head.headers["content-type"] = <<"application/json">>
    /\ Resp.body.b = BodyBytes("[\"v1\",\"v2\"]")

\* C8 as stated: json/json2 with a serializable value keeps a staged
\* Content-Type, sets application/json if there is none, and the body is the
\* serialized value.
C8_Original ==
    (JsonCall /\ last.arg.kind = "vec" /\ last.kind = "resp") => JsonContentType

\* C8 amended: the same, for a builder with no fault latched whose staged
\* cookies all encode.
C8_Amended ==
    (JsonCall /\ last.arg.kind = "vec" /\ last.kind = "resp"
        /\ pre.err = None /\ ~CookieFault(pre.cookies)) => JsonContentType

\* json on a builder with two staged Content-Type values
C8_Witness ==
    /\ last.op = "json" /\ last.arg.kind = "vec" /\ last.kind = "resp"
    /\ pre.err = None
    /\ Len(StagedContentType) = 2

\* C9: when serialization fails, json/json2 returns the conversion of the
\* serialization fault alone: no staged header, no Set-Cookie, and not a
\* latched header fault.
C9_SerializationFaultAlone ==
    (JsonCall /\ last.arg.kind # "vec") =>
        /\ last.kind = "resp"
        /\ BareErrorResponse(Resp, "JsonError")

\* json2 with a value that fails to serialize, on a builder with a staged
\* header and a latched fault
C9_Witness ==
    /\ last.op = "json2" /\ last.arg.kind # "vec"
    /\ IsSome(pre.err)
    /\ IsSome(pre.head) /\ Unwrap(pre.head).headers # NoHeaders

\* C10: after json or json2 has returned a Response the builder is consumed:
\* a further terminal call panics.
C10_JsonConsumes ==
    (pre.jsonReturned /\ last.op \in Terminals) => last.kind = "panic"

(***************************************************************************)
(* The cookie merge of a terminal call                                     *)
(***************************************************************************)
\* The Set-Cookie lines of a header map
SetCookies(h) == h.headers["set-cookie"]

\* The terminal call went through the cookie merge and returned the built response
Merged ==
    /\ last.op \in Terminals
    /\ last.kind = "resp"
    /\ pre.err = None
    /\ IsSome(pre.head)
    /\ Resp.error = None

\* The Set-Cookie lines the terminal call added to those the head already had
Appended ==
    SubSeq(SetCookies(Resp.head), Len(SetCookies(Unwrap(pre.head))) + 1,
           Len(SetCookies(Resp.head)))

\* The elements of a sequence
Range(s) == {s[i] : i \in 1..Len(s)}

\* The lines that set or expire the cookie named n
LinesFor(lines, n) == {i \in 1..Len(lines) : IsPrefix(n \o "=", lines[i])}

FullC3 == "c=3; HttpOnly; Path=/test; Domain=www.rust-lang.org; Max-Age=86400"
ExpiryA == "a=; Max-Age=0; Expires=" \o PastDate

\* A builder converted from a response or head carrying a=1 and b=2, on which
\* cookie(c=3) and then del_cookie(a) were staged, was finished
C11_Case ==
    /\ Merged
    /\ SetCookies(Unwrap(pre.head)) = <<"a=1", "b=2">>
    /\ Len(staged) = 2
    /\ staged[1] = [op |-> "cookie", cookie |-> FullCookie]
    /\ staged[2].op = "del_cookie" /\ staged[2].cookie.name = "a"

\* C11 as stated: with the baseline {a=1, b=2}, cookie(c=3) and del_cookie(a)
\* staged, the finished response has exactly two Set-Cookie lines, the full
\* entry for c and the expiry entry for a, and no line for b.
C11_Original ==
    C11_Case =>
        /\ Range(SetCookies(Resp.head)) = {FullC3, ExpiryA}
        /\ Len(SetCookies(Resp.head)) = 2
        /\ LinesFor(SetCookies(Resp.head), "b") = {}

\* C11 amended: the terminal call appends exactly two Set-Cookie lines, the
\* full entry for c and the expiry entry for a, and none for b; the lines
\* a=1 and b=2 the head took over from the source response stay ahead of them.
C11_Amended ==
    C11_Case =>
        /\ Range(Appended) = {FullC3, ExpiryA}
        /\ Len(Appended) = 2
        /\ SetCookies(Resp.head) = <<"a=1", "b=2">> \o Appended

C11_Witness ==
    /\ C11_Case
    /\ last.op = "finish"
    /\ pre.cookies = Some([original |-> {[cookie |-> NewCookie("a", "1"), removed |-> FALSE],
                                          [cookie |-> NewCookie("b", "2"), removed |-> FALSE]},
                           delta |-> {[cookie |-> FullCookie, removed |-> FALSE],
                                      [cookie |-> removal_cookie(NewCookie("a", "1")),
                                       removed |-> TRUE]}])

\* The staged calls that name the cookie n
CallsFor(n) == {i \in 1..Len(staged) : staged[i].cookie.name = n}

\* The last staged call that names the cookie n
LastCallFor(n) == staged[CHOOSE i \in CallsFor(n) : \A j \in CallsFor(n) : j <= i]

\* The line is the immediate-expiry entry of the cookie n
IsExpiryEntry(line, n) == IsPrefix(n \o "=;", line) /\ Contains(line, "; Max-Age=0;")

\* The line is what the pending action on the cookie n asks for
IsEntryOf(line, n) ==
    IF LastCallFor(n).op = "cookie"
    THEN line = cookie_to_string(LastCallFor(n).cookie)
    ELSE IsExpiryEntry(line, n)

\* C12: a successful terminal call appends exactly one Set-Cookie entry per
\* cookie name with a pending action, the full entry for an add and the
\* immediate-expiry entry for a removal, and none for any other name,
\* originals of the baseline included.
C12_OneEntryPerPendingAction ==
    Merged =>
        \A n \in CookieNames :
            IF CallsFor(n) = {}
            THEN LinesFor(Appended, n) = {}
            ELSE /\ Cardinality(LinesFor(Appended, n)) = 1
                 /\ \A i \in LinesFor(Appended, n) : IsEntryOf(Appended[i], n)

C12_Witness ==
    /\ Merged
    /\ IsSome(pre.cookies)
    /\ {o.cookie.name : o \in Unwrap(pre.cookies).original} = {"a", "b"}
    /\ Len(staged) = 2
    /\ staged[1].op = "del_cookie" /\ staged[1].cookie.name = "a"
    /\ staged[2].op = "cookie" /\ staged[2].cookie.name = "c"
    /\ Len(Appended) = 2
    /\ LinesFor(Appended, "b") = {}

\* The cookie named n was staged and its last call is del_cookie
PendingRemoval(n) == CallsFor(n) # {} /\ LastCallFor(n).op = "del_cookie"

\* cookie(c=3 with domain, path, http_only and max_age), then del_cookie of
\* another name, then finish()
C13_Scenario ==
    /\ last.op = "finish"
    /\ Len(staged) = 2
    /\ staged[1] = [op |-> "cookie", cookie |-> FullCookie]
    /\ staged[2].op = "del_cookie" /\ staged[2].cookie.name # "c"

\* The terminal call appended exactly one line for n, an immediate-expiry entry
OneExpiryEntry(n) ==
    /\ Cardinality(LinesFor(Appended, n)) = 1
    /\ \A i \in LinesFor(Appended, n) : IsExpiryEntry(Appended[i], n)

\* C13 as stated: whenever a terminal call returns, a cookie whose last staged
\* call is del_cookie has exactly one entry with an empty value and Max-Age=0;
\* cookie(full), del_cookie(other), finish() gives a response with exactly two
\* Set-Cookie headers, an Empty body and the builder's status.
C13_Original ==
    (last.op \in Terminals /\ last.kind = "resp") =>
        /\ \A n \in CookieNames : PendingRemoval(n) => OneExpiryEntry(n)
        /\ C13_Scenario =>
              /\ Len(SetCookies(Resp.head)) = 2
              /\ FullC3 \in Range(SetCookies(Resp.head))
              /\ Resp.body = [arm |-> "Body", b |-> BodyEmpty]
              /\ Resp.head.status = Unwrap(pre.head).status

\* C13 amended: at a successful terminal call a cookie whose last staged call
\* is del_cookie gets exactly one appended entry with an empty value and
\* Max-Age=0; cookie(full), del_cookie(other), finish() appends exactly two
\* Set-Cookie headers after those the head already had, with an Empty body
\* and the builder's status.
C13_Amended ==
    Merged =>
        /\ \A n \in CookieNames : PendingRemoval(n) => OneExpiryEntry(n)
        /\ C13_Scenario =>
              /\ Len(Appended) = 2
              /\ FullC3 \in Range(Appended)
              /\ SetCookies(Resp.head) = SetCookies(Unwrap(pre.head)) \o Appended
              /\ Resp.body = [arm |-> "Body", b |-> BodyEmpty]
              /\ Resp.head.status = Unwrap(pre.head).status

C13_Witness ==
    /\ Merged
    /\ C13_Scenario
    /\ staged[2].cookie = NewCookie("a", BadValue)
    /\ SetCookies(Unwrap(pre.head)) = <<>>
    /\ Resp.head.status = "NOT_FOUND"
    /\ Len(SetCookies(Resp.head)) = 2

\* The names with a staged call
PendingNames == {n \in CookieNames : CallsFor(n) # {}}

\* The position of the last staged call that names n
LastIndexFor(n) == CHOOSE i \in CallsFor(n) : \A j \in CallsFor(n) : j <= i

\* The name of the cookie a Set-Cookie line is about
NameOf(line) == CHOOSE n \in CookieNames : IsPrefix(n \o "=", line)

\* The entry the pending action on n asks for
EntryOf(n) ==
    IF LastCallFor(n).op = "cookie"
    THEN cookie_to_string(LastCallFor(n).cookie)
    ELSE cookie_to_string(removal_cookie(LastCallFor(n).cookie))

\* C14 as stated: the appended Set-Cookie entries are in the order in which
\* their pending actions were staged.
C14_Original ==
    Merged =>
        \A i, j \in 1..Len(Appended) :
            i < j => LastIndexFor(NameOf(Appended[i])) < LastIndexFor(NameOf(Appended[j]))

\* C14 amended: the appended Set-Cookie entries are the entries of the
\* pending actions, each once, in some order; the order is the jar's and is
\* not fixed by the staging order.
C14_Amended ==
    Merged =>
        /\ Range(Appended) = {EntryOf(n) : n \in PendingNames}
        /\ Len(Appended) = Cardinality(PendingNames)

\* Two entries appended against the order of their staging
C14_Witness ==
    /\ Merged
    /\ Len(staged) = 2
    /\ staged[1] = [op |-> "cookie", cookie |-> FullCookie]
    /\ staged[2] = [op |-> "cookie", cookie |-> NewCookie("b", "2")]
    /\ Appended = <<"b=2", FullC3>>

\* A terminal call reached the cookie merge with a pending cookie that does
\* not encode into a header value
C15_Case ==
    /\ SlotTerminal
    /\ pre.err = None
    /\ IsSome(pre.head)
    /\ CookieFault(pre.cookies)

\* C15: when a pending cookie fails to encode, the terminal call returns the
\* error Response converted from that fault, with no header of the head, no
\* Set-Cookie entry and an empty body in place of the supplied one, and the
\* builder is left without its head.
C15_CookieFaultAborts ==
    C15_Case =>
        /\ last.kind = "resp"
        /\ BareErrorResponse(Resp, "InvalidHeaderValue")
        /\ SetCookies(Resp.head) = <<>>
        /\ head = None
        /\ err = None

\* body("hello") on a head that carries headers, with an encodable and an
\* unencodable cookie pending
C15_Witness ==
    /\ C15_Case
    /\ last.op = "body"
    /\ last.arg = BodyBytes("hello")
    /\ SetCookies(Unwrap(pre.head)) # <<>>
    /\ {d.cookie : d \in Unwrap(pre.cookies).delta} = {FullCookie, NewCookie("a", BadValue)}

(***************************************************************************)
(* Properties of the Response operators                                    *)
(***************************************************************************)
\* What the last operation returned beside the Response
Out == Unwrap(rlast.out)

\* C16: take_body returns the body the Response held and leaves Empty in its
\* place; in a run of take_body calls the first returns the body the Response
\* had and every later one returns Empty; the head and the error are those
\* from before the call.
C16_TakeBody ==
    rlast.op = "take_body" =>
        /\ Out = rpre.body
        /\ self.body.b = BodyEmpty
        /\ rlast.streak >= 2 => Out.b = BodyEmpty
        /\ self.head = rpre.head
        /\ self.error = rpre.error

\* take_body applied twice in a row to a fresh Response whose body is "hello"
C16_Witness ==
    /\ rlast.op = "take_body"
    /\ rlast.streak >= 2
    /\ calls = rlast.streak
    /\ self.head = FullHeadResponse.head
    /\ Out.b = BodyEmpty


\* C17: drop_body and into_body give a Response with the head and the
\* originating error of the Response they were applied to.
C17_HeadAndErrorKept ==
    rlast.op \in {"drop_body", "into_body"} =>
        /\ self.head = rpre.head
        /\ self.error = rpre.error

\* The body a body-installing operator was handed
Supplied ==
    IF rlast.op = "map_body"
    THEN call(rlast.arg, rpre.head, rpre.body).body
    ELSE [arm |-> "Body", b |-> rlast.arg]

\* C18: set_body, replace_body and map_body keep the originating error and
\* the head, but for what map_body's closure writes to the head; the new
\* Response holds the supplied body and replace_body returns the displaced one.
C18_ErrorAndHeadKept ==
    rlast.op \in {"set_body", "replace_body", "map_body"} =>
        /\ self.error = rpre.error
        /\ self.head = IF rlast.op = "map_body"
                       THEN call(rlast.arg, rpre.head, rpre.body).head
                       ELSE rpre.head
        /\ self.body = Supplied
        /\ rlast.op = "replace_body" => Out = rpre.body


(***************************************************************************)
(* The connection state of a finished response                             *)
(***************************************************************************)
\* What the claim says of a response, given the last setter called
ConnectionStateFollows(r) ==
    /\ setter.op = "force_close" => ~Response_keep_alive(r)
    /\ (setter.op = "upgrade" /\ HeaderValue_try_from(setter.arg).ok) =>
          /\ Response_upgrade(r)
          /\ r.head.headers["upgrade"] = <<setter.arg>>
    /\ Response_upgrade(r) <=> r.head.ctype = Some("Upgrade")

\* C19 as stated: the response a terminal call returns has the connection
\* state of the last connection-type setter called on the builder.
C19_Original ==
    (last.op \in Terminals /\ last.kind = "resp" /\ setter.op \in ConnectionSetters) =>
        ConnectionStateFollows(Resp)

\* C19 amended: when the last connection-type setter was called with no fault
\* latched on a builder that had its head, and the terminal call returns the
\* built response, that response has the connection state of that setter.
C19_Amended ==
    (Merged /\ setter.op \in ConnectionSetters /\ setter.live) =>
        ConnectionStateFollows(Resp)

\* finish() after upgrade("websocket") on a builder that had force_close set
C19_Witness ==
    /\ Merged
    /\ last.op = "finish"
    /\ setter = [op |-> "upgrade", arg |-> "websocket", live |-> TRUE,
                 before |-> "force_close"]
    /\ Response_upgrade(Resp)
    /\ ~Response_keep_alive(Resp)

\* C20: each conversion of a text or byte payload into a Response gives
\* status 200, no originating error, a body holding the payload, and exactly
\* one Content-Type header: text/plain; charset=utf-8 for the text inputs,
\* application/octet-stream for the byte inputs.
C20_Conversions ==
    rlast.op = "from" =>
        /\ self.head.status = "OK"
        /\ self.error = None
        /\ self.body = [arm |-> "Body", b |-> [kind |-> "Bytes", data |-> rlast.arg.val]]
        /\ rlast.arg.kind \in TextKinds =>
              self.head.headers["content-type"] = <<"text/plain; charset=utf-8">>
        /\ rlast.arg.kind \in ByteKinds =>
              self.head.headers["content-type"] = <<"application/octet-stream">>

\* A byte slice no header could hold, converted
C20_Witness ==
    /\ rlast.op = "from"
    /\ rlast.arg = [kind |-> "&[u8]", val |-> BadValue]
    /\ self.body.b.data = BadValue
    /\ self.head.headers["content-type"] = <<"application/octet-stream">>


(***************************************************************************)
(* Cookies of a Response                                                   *)
(***************************************************************************)
\* The Set-Cookie line reads as text and parses as a cookie named n
IsCookieNamed(line, n) ==
    /\ IsSome(to_str(line))
    /\ IsSome(parse_encoded(line))
    /\ Unwrap(parse_encoded(line)).name = n

\* The lines of a sequence that are no cookie named n, in their order
LinesNotNamed(lines, n) ==
    LET Keep(l) == ~IsCookieNamed(l, n)
    IN  SelectSeq(lines, Keep)

\* What C21 says of Response::del_cookie
DelCookieRemovesNamed ==
    rlast.op = "del_cookie" =>
        /\ SetCookies(self.head) = LinesNotNamed(SetCookies(rpre.head), rlast.arg)
        /\ Out = Len(SetCookies(rpre.head)) - Len(SetCookies(self.head))
        /\ Out = Cardinality({i \in 1..Len(SetCookies(rpre.head)) :
                                 IsCookieNamed(SetCookies(rpre.head)[i], rlast.arg)})
        /\ \A k \in HeaderNames \ {"set-cookie"} : self.head.headers[k] = rpre.head.headers[k]

\* add_cookie appended one Set-Cookie line after those the Response had
AppendedOne ==
    /\ Len(SetCookies(self.head)) = Len(SetCookies(rpre.head)) + 1
    /\ SubSeq(SetCookies(self.head), 1, Len(SetCookies(rpre.head))) = SetCookies(rpre.head)
    /\ SetCookies(self.head)[Len(SetCookies(self.head))] = cookie_to_string(rlast.arg)

\* C21 as stated: del_cookie(name) removes exactly the Set-Cookie headers
\* whose cookie is named name, keeps the others in order and returns the
\* number removed; add_cookie appends exactly one Set-Cookie header and
\* leaves the existing ones untouched.
C21_Original ==
    /\ DelCookieRemovesNamed
    /\ rlast.op = "add_cookie" => AppendedOne

\* C21 amended: as stated for del_cookie; add_cookie appends exactly one
\* Set-Cookie header after the existing ones when it returns Ok, and returns
\* Err leaving the Response as it was when the cookie is no header value.
C21_Amended ==
    /\ DelCookieRemovesNamed
    /\ rlast.op = "add_cookie" =>
          /\ Out <=> HeaderValue_try_from(cookie_to_string(rlast.arg)).ok
          /\ Out => AppendedOne
          /\ ~Out => self = rpre

\* del_cookie("a") on a response with two lines for a, one for b and one
\* that is no cookie
C21_Witness ==
    /\ rlast.op = "del_cookie"
    /\ rlast.arg = "a"
    /\ rpre = MixedResponse
    /\ Out = 2
    /\ SetCookies(self.head) = <<NoCookie, "b=2">>


(***************************************************************************)
(* Appending and replacing header calls                                    *)
(***************************************************************************)
AppendingCalls == {"header", "set", "content_length"}
ReplacingCalls == {"set_header", "content_type"}

\* The header name the last header call was handed, converted
CallKey ==
    CASE last.op \in {"header", "set_header"} -> HeaderName_try_from(last.arg[1])
      [] last.op = "set" -> [ok |-> TRUE, v |-> last.arg.name, e |-> ""]
      [] last.op = "content_type" -> [ok |-> TRUE, v |-> "content-type", e |-> ""]
      [] last.op = "content_length" -> [ok |-> TRUE, v |-> "content-length", e |-> ""]

\* The header value the last header call was handed, converted
CallValue ==
    CASE last.op \in {"header", "set_header"} -> HeaderValue_try_from(last.arg[2])
      [] last.op = "set" -> [ok |-> last.arg.ok, v |-> last.arg.value, e |-> ""]
      [] last.op = "content_type" -> HeaderValue_try_from(last.arg)
      [] last.op = "content_length" -> [ok |-> TRUE, v |-> Decimal(last.arg), e |-> ""]

\* The last call left under its key what the claim says, and the other keys alone
HeaderCallEffect ==
    /\ IsSome(pre.head) /\ IsSome(head)
    /\ CallKey.ok /\ CallValue.ok
    /\ Unwrap(head).headers[CallKey.v] =
          IF last.op \in AppendingCalls
          THEN Unwrap(pre.head).headers[CallKey.v] \o <<CallValue.v>>
          ELSE <<CallValue.v>>
    /\ \A k \in HeaderNames \ {CallKey.v} :
          Unwrap(head).headers[k] = Unwrap(pre.head).headers[k]

\* The response a successful terminal call returns has the header values the
\* builder held, json adding its Content-Type when there was none
HeadersCarried ==
    Merged =>
        \A k \in HeaderNames \ {"set-cookie"} :
            Resp.head.headers[k] =
                IF JsonCall /\ k = "content-type" /\ Unwrap(pre.head).headers[k] = <<>>
                THEN <<"application/json">>
                ELSE Unwrap(pre.head).headers[k]

\* C22 as stated: with no fault latched, header, set and content_length
\* append their value under their key and set_header and content_type leave
\* their value as the only one under their key.
C22_Original ==
    /\ (last.op \in AppendingCalls \cup ReplacingCalls /\ pre.err = None) => HeaderCallEffect
    /\ HeadersCarried

\* C22 amended: the same, for a call made on a builder that holds its head
\* with a key and a value that convert; the finished response of a successful
\* terminal call has the values so accumulated.
C22_Amended ==
    /\ (/\ last.op \in AppendingCalls \cup ReplacingCalls
        /\ pre.err = None /\ IsSome(pre.head)
        /\ CallKey.ok /\ CallValue.ok) => HeaderCallEffect
    /\ HeadersCarried

\* set_header replacing two values appended before it
C22_Witness ==
    /\ last.op = "set_header"
    /\ pre.err = None /\ IsSome(pre.head)
    /\ CallKey.ok /\ CallValue.ok
    /\ Len(Unwrap(pre.head).headers[CallKey.v]) = 2
    /\ Len(Unwrap(head).headers[CallKey.v]) = 1


(***************************************************************************)
(* take()                                                                  *)
(***************************************************************************)
\* The head, the deferred-error slot and the cookie set of a snapshot
BuilderOf(s) == [head |-> s.head, err |-> s.err, cookies |-> s.cookies]

\* take() has been called on the builder before the last call
Taken == IsSome(pre.moved) /\ pre.head = None /\ pre.err = None

\* C23: take() moves head, error slot and cookie set into the builder it
\* returns and leaves the original with none; finishing the new builder gives
\* what finishing the original would have given; afterwards calls on the
\* original leave the new builder alone and its terminal calls panic.
C23_TakeMoves ==
    /\ last.op = "take" =>
          /\ moved = Some(BuilderOf(pre))
          /\ head = None /\ err = None /\ cookies = None
          /\ \A ord \in DeltaOrders(pre.cookies) :
                finish(Unwrap(moved).head, Unwrap(moved).err, Unwrap(moved).cookies, ord)
                    = finish(pre.head, pre.err, pre.cookies, ord)
    /\ (Taken /\ last.op # "take") => moved = pre.moved
    /\ (Taken /\ last.op \in Terminals) => last.kind = "panic"


(***************************************************************************)
(* Response to builder and back                                            *)
(***************************************************************************)
\* C24: a Response or a ResponseHead converted into a builder and finished
\* at once gives a response with the source's version, status, reason,
\* no-chunking flag and header entries, every Set-Cookie line of the source
\* once; the builder starts without a latched fault and the finished body is
\* empty.
C24_RoundTrip ==
    rlast.op = "into_builder" =>
        /\ Out.err = None
        /\ self.head.version = rpre.head.version
        /\ self.head.status = rpre.head.status
        /\ self.head.reason = rpre.head.reason
        /\ self.head.no_chunking = rpre.head.no_chunking
        /\ self.head.headers = rpre.head.headers
        /\ self.body = [arm |-> "Body", b |-> BodyEmpty]

\* The head of a response with a reason, the no-chunking flag, a header, a
\* Set-Cookie line and a body, converted
C24_Witness ==
    /\ rlast.op = "into_builder"
    /\ rlast.arg = "ResponseHead"
    /\ IsSome(rpre.head.reason)
    /\ rpre.head.no_chunking
    /\ rpre.head.headers["x-test"] # <<>>
    /\ Len(SetCookies(rpre.head)) = 1
    /\ rpre.body.b = BodyBytes("hello")
    /\ SetCookies(self.head) = SetCookies(rpre.head)


(***************************************************************************)
(* Calls on the same cookie name                                           *)
(***************************************************************************)
\* The names that cookie or del_cookie was called for more than once
ContestedNames == {n \in CookieNames : Cardinality(CallsFor(n)) >= 2}

\* The jar of the builder holds at most one pending action per name
OneActionPerName ==
    IsSome(cookies) =>
        \A n \in CookieNames :
            Cardinality({d \in Unwrap(cookies).delta : d.cookie.name = n}) <= 1

\* The terminal call appended one line for n: that of the last call for n
LastCallWins(n) ==
    /\ IsSome(pre.head)
    /\ Cardinality(LinesFor(Appended, n)) = 1
    /\ \A i \in LinesFor(Appended, n) : Appended[i] = EntryOf(n)

\* C25 as stated: the jar never holds two actions for a name, and a terminal
\* call that returns has exactly one Set-Cookie entry for a name called more
\* than once, that of the last call.
C25_Original ==
    /\ OneActionPerName
    /\ (last.op \in Terminals /\ last.kind = "resp") =>
          \A n \in ContestedNames : LastCallWins(n)

\* C25 amended: the jar never holds two actions for a name, and a successful
\* terminal call appends exactly one Set-Cookie entry for a name called more
\* than once, that of the last call.
C25_Amended ==
    /\ OneActionPerName
    /\ Merged => \A n \in ContestedNames : LastCallWins(n)

\* del_cookie(a) overridden by cookie(a=1), then finished
C25_Witness ==
    /\ Merged
    /\ Len(staged) = 2
    /\ staged[1].op = "del_cookie" /\ staged[1].cookie.name = "a"
    /\ staged[2] = [op |-> "cookie", cookie |-> NewCookie("a", "1")]
    /\ Appended = <<"a=1">>

====
